---- MODULE Spec2Model ----
(***************************************************************************)
(* A model of urconf: the declarative Uptime Robot configuration library.  *)
(* The desired contacts and monitors are declared in memory, then sync()   *)
(* reconciles the remote service with them: contacts first, monitors next. *)
(*                                                                         *)
(* Strings are sequences of character codes (ASCII), so that str(), int(), *)
(* "_".join, "-".join and sorted() are computed as Python computes them.   *)
(* Keyword spellings of one field (friendly_name / friendlyname, ...) are  *)
(* one field name here.                                                    *)
(***************************************************************************)
EXTENDS Integers, Sequences, FiniteSets, TLC

(***************************************************************************)
(* Bounds of the model.                                                    *)
(***************************************************************************)
MaxRemote == 2
MaxDesired == 3
PageLimit == 1
MaxTotal == 5
MaxLimit == 3
MaxAssoc == 2

(***************************************************************************)
(* Program constants.                                                      *)
(***************************************************************************)
DEFAULT_INTERVAL == 5
TYPE_EMAIL == 2
TYPE_BOXCAR == 4
TYPE_KEYWORD == 2
TYPE_PORT == 4

(***************************************************************************)
(* Strings.                                                                *)
(***************************************************************************)
EmptyStr == << >>
Dash == <<45>>
Underscore == <<95>>
NoneStr == <<78, 111, 110, 101>>

S_a == <<97>>
S_b == <<98>>
S_n == <<110>>
S_m1 == <<109, 49>>
S_m2 == <<109, 50>>
S_url == <<117>>
S_kw == <<107>>
S_usr == <<117, 115, 114>>

IsDigits(s) == Len(s) > 0 /\ \A i \in 1..Len(s) : s[i] \in 48..57

RECURSIVE NatToStr(_)
NatToStr(n) ==
    IF n < 10 THEN <<48 + n>>
    ELSE NatToStr(n \div 10) \o <<48 + (n % 10)>>

RECURSIVE StrToNat(_)
StrToNat(s) ==
    IF Len(s) = 0 THEN 0
    ELSE 10 * StrToNat(SubSeq(s, 1, Len(s) - 1)) + (s[Len(s)] - 48)

\* a < b in Python's string order (code point by code point, prefix first)
RECURSIVE StrLess(_, _)
StrLess(a, b) ==
    IF Len(b) = 0 THEN FALSE
    ELSE IF Len(a) = 0 THEN TRUE
    ELSE IF a[1] # b[1] THEN a[1] < b[1]
    ELSE StrLess(Tail(a), Tail(b))

RECURSIVE Insert(_, _)
Insert(x, sorted) ==
    IF sorted = << >> THEN <<x>>
    ELSE IF StrLess(x, Head(sorted)) THEN <<x>> \o sorted
    ELSE <<Head(sorted)>> \o Insert(x, Tail(sorted))

\* the list as it is given
Sorted_AsGiven(l) == l

\* sorted(list of str)
RECURSIVE Sorted(_)
Sorted(l) == IF l = << >> THEN << >> ELSE Insert(l[Len(l)], Sorted(SubSeq(l, 1, Len(l) - 1)))

\* sep.join(list of str)
RECURSIVE Join(_, _)
Join(sep, l) ==
    IF l = << >> THEN EmptyStr
    ELSE IF Len(l) = 1 THEN l[1]
    ELSE l[1] \o sep \o Join(sep, Tail(l))

(***************************************************************************)
(* Raw values: what a keyword argument or a JSON member can hold.          *)
(***************************************************************************)
RS(s) == [t |-> "str", s |-> s, i |-> 0]
RI(i) == [t |-> "int", s |-> EmptyStr, i |-> i]
RNone == [t |-> "none", s |-> EmptyStr, i |-> 0]

\* Python truthiness of a raw value
Truthy(v) ==
    CASE v.t = "str" -> v.s # EmptyStr
      [] v.t = "int" -> v.i # 0
      [] OTHER -> FALSE

\* str(v)
StrOf(v) ==
    CASE v.t = "str" -> v.s
      [] v.t = "int" -> NatToStr(v.i)
      [] OTHER -> NoneStr

\* int(v) is defined on integers and on digit strings
IntDefined(v) == v.t = "int" \/ (v.t = "str" /\ IsDigits(v.s))
IntOf(v) == IF v.t = "int" THEN v.i ELSE StrToNat(v.s)

(***************************************************************************)
(* Syncable entities (uptimerobot_syncable.py).  _values is kept as two    *)
(* maps, one per declared type, each defined on the keys that were set.    *)
(***************************************************************************)
ContactFields == <<"value", "type", "friendlyname">>
MonitorFields ==
    <<"friendlyname", "url", "type", "subtype", "keywordtype", "keywordvalue",
      "httpusername", "httppassword", "port", "interval">>
IntFields == {"type", "subtype", "keywordtype", "port", "interval"}

FIELDS(kind) == IF kind = "contact" THEN ContactFields ELSE MonitorFields
REQUIRED_FIELDS(kind) ==
    IF kind = "contact" THEN {"value", "type"} ELSE {"friendlyname", "url", "type"}
TYPES(f) == IF f \in IntFields THEN "int" ELSE "str"

Range(seq) == {seq[i] : i \in 1..Len(seq)}
EmptyMap == [x \in {} |-> 0]
NewEntity == [sv |-> EmptyMap, iv |-> EmptyMap, added |-> << >>, cstr |-> RNone]

\* __setitem__ with the id declared as an integer
SetItem_IntId(e, f, v) ==
    IF TYPES(f) = "int" THEN [e EXCEPT !.iv = (f :> IntOf(v)) @@ e.iv]
    ELSE IF f = "id" /\ IntDefined(v) THEN [e EXCEPT !.sv = (f :> NatToStr(IntOf(v))) @@ e.sv]
    ELSE [e EXCEPT !.sv = (f :> StrOf(v)) @@ e.sv]

\* Syncable.__setitem__: the value is coerced to the declared type
SetItem(e, f, v) ==
    IF TYPES(f) = "int" THEN [e EXCEPT !.iv = (f :> IntOf(v)) @@ e.iv]
    ELSE [e EXCEPT !.sv = (f :> StrOf(v)) @@ e.sv]

\* Syncable.__getitem__: an unset key reads as "" or 0
GetItem(e, f) ==
    IF TYPES(f) = "int" THEN (IF f \in DOMAIN e.iv THEN RI(e.iv[f]) ELSE RI(0))
    ELSE (IF f \in DOMAIN e.sv THEN RS(e.sv[f]) ELSE RS(EmptyStr))

IdOf(e) == GetItem(e, "id").s

\* Syncable.name: the first declared field
Name(kind, e) == GetItem(e, FIELDS(kind)[1]).s

\* __init__ that stores every keyword argument given, falsy or not
RECURSIVE SetFields_StoreFalsy(_, _, _)
SetFields_StoreFalsy(e, fs, kwargs) ==
    IF fs = << >> THEN e
    ELSE LET f == Head(fs)
             e2 == IF f \in DOMAIN kwargs THEN SetItem(e, f, kwargs[f]) ELSE e
         IN SetFields_StoreFalsy(e2, Tail(fs), kwargs)

\* Syncable.__init__: the loop over _FIELDS + ["id"]; falsy values are not stored
RECURSIVE SetFields(_, _, _)
SetFields(e, fs, kwargs) ==
    IF fs = << >> THEN e
    ELSE LET f == Head(fs)
             e2 == IF f \in DOMAIN kwargs /\ Truthy(kwargs[f])
                   THEN SetItem(e, f, kwargs[f]) ELSE e
         IN SetFields(e2, Tail(fs), kwargs)

\* __init__ without the check of the required fields
ConstructRaises_NoRequired(kind, kwargs) ==
    IF \E f \in Range(FIELDS(kind)) :
         /\ f \in DOMAIN kwargs
         /\ Truthy(kwargs[f])
         /\ TYPES(f) = "int"
         /\ ~IntDefined(kwargs[f])
    THEN "ValueError"
    ELSE ""

\* Syncable.__init__ raises RuntimeError when a required field is absent; then
\* int() raises ValueError on a value it stores that is no number
ConstructRaises(kind, kwargs) ==
    IF ~(REQUIRED_FIELDS(kind) \subseteq DOMAIN kwargs) THEN "RuntimeError"
    ELSE IF \E f \in Range(FIELDS(kind)) :
              /\ f \in DOMAIN kwargs
              /\ Truthy(kwargs[f])
              /\ TYPES(f) = "int"
              /\ ~IntDefined(kwargs[f])
    THEN "ValueError"
    ELSE ""

ConstructOk(kind, kwargs) == ConstructRaises(kind, kwargs) = ""

\* Monitor._contact_str
ContactStr(args) == Join(Underscore, [i \in 1..Len(args) |-> StrOf(args[i])])

\* Monitor.__init__ that does not read the alert contacts of the record
Construct_NoAlertContacts(kind, kwargs) ==
    SetFields(NewEntity, FIELDS(kind) \o <<"id">>, kwargs)

\* Syncable.__init__ followed by Monitor.__init__
Construct(kind, kwargs) ==
    LET e == SetFields(NewEntity, FIELDS(kind) \o <<"id">>, kwargs)
    IN IF kind = "monitor" /\ "alertcontact" \in DOMAIN kwargs
       THEN LET ac == kwargs["alertcontact"]
                strs == [i \in 1..Len(ac) |->
                            ContactStr(<<ac[i].id, ac[i].threshold, ac[i].recurrence>>)]
            IN [e EXCEPT !.cstr = RS(Join(Dash, Sorted(strs)))]
       ELSE e

\* __eq__ that compares the name only
SyncableEq_NameOnly(kind, a, b) == GetItem(a, FIELDS(kind)[1]) = GetItem(b, FIELDS(kind)[1])

\* __eq__ that compares the id as well
SyncableEq_WithId(kind, a, b) ==
    /\ \A f \in Range(FIELDS(kind)) : GetItem(a, f) = GetItem(b, f)
    /\ GetItem(a, "id") = GetItem(b, "id")

\* Syncable.__eq__: every declared field equal; the id is not compared
SyncableEq(kind, a, b) == \A f \in Range(FIELDS(kind)) : GetItem(a, f) = GetItem(b, f)

(***************************************************************************)
(* Declarations (uptimerobot.py): the keyword arguments each one passes.   *)
(***************************************************************************)
ContactKwargs(type, value, friendlyname) ==
    [friendlyname |-> RS(friendlyname), type |-> RI(type), value |-> RS(value)]

KeywordMonitorKwargs(name, url, keyword, should_exist, http_username, http_password, interval) ==
    [friendlyname |-> RS(name), type |-> RI(TYPE_KEYWORD), url |-> RS(url),
     keywordvalue |-> RS(keyword), keywordtype |-> RI(IF should_exist THEN 2 ELSE 1),
     httpusername |-> RS(http_username), httppassword |-> RS(http_password),
     interval |-> RI(interval * 60)]

\* port_to_subtype.setdefault(port, 99)
PortToSubtype(port) ==
    CASE port = 80 -> 1 [] port = 443 -> 2 [] port = 21 -> 3
      [] port = 25 -> 4 [] port = 110 -> 5 [] port = 143 -> 6 [] OTHER -> 99

PortMonitorKwargs(name, hostname, port, interval) ==
    [friendlyname |-> RS(name), type |-> RI(TYPE_PORT), url |-> RS(hostname),
     subtype |-> RI(PortToSubtype(port)), port |-> RI(port), interval |-> RI(interval * 60)]

(***************************************************************************)
(* Request parameters (uptimerobot_syncable.py).                           *)
(***************************************************************************)
\* Contact._params_delete
ContactParamsDelete(c) == [alertContactID |-> GetItem(c, "id")]

\* _params_create with value and friendly name exchanged
ContactParamsCreate_Swapped(c) ==
    [alertContactType |-> GetItem(c, "type"),
     alertContactValue |-> GetItem(c, "friendlyname"),
     alertContactFriendlyName |-> GetItem(c, "value")]

\* Contact._params_create
ContactParamsCreate(c) ==
    [alertContactType |-> GetItem(c, "type"),
     alertContactValue |-> GetItem(c, "value"),
     alertContactFriendlyName |-> GetItem(c, "friendlyname")]

\* Monitor._contacts: the server's string when there is one, else the added
\* contacts, each with the id the contact has now
MonitorContacts(m, cs) ==
    IF Truthy(m.cstr) THEN m.cstr.s
    ELSE Join(Dash, Sorted([i \in 1..Len(m.added) |->
            ContactStr(<<GetItem(cs[m.added[i][1]], "id"),
                         RI(m.added[i][2]), RI(m.added[i][3])>>)]))

\* Monitor.__eq__ that compares the fields only
MonitorEq_FieldsOnly(a, b, cs) == SyncableEq("monitor", a, b)

\* Monitor.__eq__ that compares _contacts_str, not the _contacts property
MonitorEq_ContactsStr(a, b, cs) ==
    /\ SyncableEq("monitor", a, b)
    /\ a.cstr = b.cstr

\* Monitor.__eq__
MonitorEq(a, b, cs) ==
    /\ SyncableEq("monitor", a, b)
    /\ MonitorContacts(a, cs) = MonitorContacts(b, cs)

\* Monitor._params_delete
MonitorParamsDelete(m) == [monitorID |-> GetItem(m, "id")]

\* Monitor._params_create (and _params_update, which returns it)
MonitorParamsCreate(m, cs) ==
    [monitorFriendlyName |-> GetItem(m, "friendlyname"),
     monitorURL |-> GetItem(m, "url"),
     monitorType |-> GetItem(m, "type"),
     monitorSubType |-> GetItem(m, "subtype"),
     monitorPort |-> GetItem(m, "port"),
     monitorKeywordType |-> GetItem(m, "keywordtype"),
     monitorKeywordValue |-> GetItem(m, "keywordvalue"),
     monitorHTTPUsername |-> GetItem(m, "httpusername"),
     monitorHTTPPassword |-> GetItem(m, "httppassword"),
     monitorInterval |-> GetItem(m, "interval"),
     monitorAlertContacts |-> RS(MonitorContacts(m, cs))]

(***************************************************************************)
(* The remote service: it keeps contact and monitor records in order,      *)
(* hands out fresh ids and applies every call as sent.                     *)
(***************************************************************************)
\* ids are text with a leading zero: "01", "02", ...
IdText(n) == <<48>> \o NatToStr(n)

RECURSIVE Split(_, _)
Split(s, ch) ==
    IF \A i \in 1..Len(s) : s[i] # ch THEN <<s>>
    ELSE LET k == CHOOSE i \in 1..Len(s) : s[i] = ch /\ \A j \in 1..(i - 1) : s[j] # ch
         IN <<SubSeq(s, 1, k - 1)>> \o Split(SubSeq(s, k + 1, Len(s)), ch)

\* "id_threshold_recurrence-..." as the list the service stores
ParseAlertContacts(s) ==
    IF s = EmptyStr THEN << >>
    ELSE LET parts == Split(s, 45)
         IN [i \in 1..Len(parts) |->
                LET t == Split(parts[i], 95)
                IN [id |-> t[1], threshold |-> StrToNat(t[2]), recurrence |-> StrToNat(t[3])]]

\* getAlertContacts / getMonitors members: numbers travel as digit strings
ContactJson(r) ==
    [id |-> RS(r.id), value |-> RS(r.value), type |-> RS(NatToStr(r.type)),
     friendlyname |-> RS(r.friendlyname)]

MonitorJson(r) ==
    [id |-> RS(r.id), friendlyname |-> RS(r.friendlyname), url |-> RS(r.url),
     type |-> RS(NatToStr(r.type)), subtype |-> RS(NatToStr(r.subtype)),
     keywordtype |-> RS(NatToStr(r.keywordtype)), keywordvalue |-> RS(r.keywordvalue),
     httpusername |-> RS(r.httpusername), httppassword |-> RS(r.httppassword),
     port |-> RS(NatToStr(r.port)), interval |-> RS(NatToStr(r.interval)),
     alertcontact |-> [i \in 1..Len(r.alertcontact) |->
         [id |-> RS(r.alertcontact[i].id), threshold |-> RI(r.alertcontact[i].threshold),
          recurrence |-> RI(r.alertcontact[i].recurrence)]]]

RemoteContactOf(id, p) ==
    [id |-> id, value |-> StrOf(p.alertContactValue), type |-> IntOf(p.alertContactType),
     friendlyname |-> StrOf(p.alertContactFriendlyName)]

RemoteMonitorOf(id, p) ==
    [id |-> id, friendlyname |-> StrOf(p.monitorFriendlyName), url |-> StrOf(p.monitorURL),
     type |-> IntOf(p.monitorType), subtype |-> IntOf(p.monitorSubType),
     keywordtype |-> IntOf(p.monitorKeywordType),
     keywordvalue |-> StrOf(p.monitorKeywordValue),
     httpusername |-> StrOf(p.monitorHTTPUsername),
     httppassword |-> StrOf(p.monitorHTTPPassword),
     port |-> IntOf(p.monitorPort), interval |-> IntOf(p.monitorInterval),
     alertcontact |-> ParseAlertContacts(StrOf(p.monitorAlertContacts))]

SelectOther(recs, id) == SelectSeq(recs, LAMBDA r : r.id # id)

\* the page of a collection at an offset, with the pagination the service reports
ServerPage(recs, offset, limit) ==
    [items |-> SubSeq(recs, offset + 1, IF offset + limit < Len(recs) THEN offset + limit ELSE Len(recs)),
     offset |-> offset, limit |-> limit, total |-> Len(recs)]

(***************************************************************************)
(* State.                                                                  *)
(***************************************************************************)
VARIABLES
    dry_run,          \* UptimeRobot._dry_run
    contacts,         \* UptimeRobot._contacts, in declaration order
    monitors,         \* UptimeRobot._monitors, in declaration order
    remoteContacts,   \* the service's alert contacts, in the order it reports them
    remoteMonitors,   \* the service's monitors
    nextId,           \* the next id the service hands out
    pc,               \* where the caller is: declaring, sync() returned ("done") or raised
    fetchedContacts,  \* _sync_contacts: fetched, as of the last sync()
    fetchedMonitors,  \* _sync_monitors: fetched, as of the last sync()
    calls,            \* requests sent during the current sync(), in order
    emitted,          \* actions decided during the current sync(), in order
    run,              \* sync() calls started: 0, 1, or 2 for two and more
    fnArgs,           \* a function applied on its own: the function and its arguments
    fnResult          \* what it returned

vars == <<dry_run, contacts, monitors, remoteContacts, remoteMonitors, nextId, pc,
          fetchedContacts, fetchedMonitors, calls, emitted, run, fnArgs, fnResult>>

\* position of a name in a declaration-ordered dict, 0 when absent
IndexOf(kind, es, name) ==
    IF \E i \in 1..Len(es) : Name(kind, es[i]) = name
    THEN CHOOSE i \in 1..Len(es) : Name(kind, es[i]) = name
    ELSE 0

(***************************************************************************)
(* The API layer.  A world w carries what one handler reads and writes:    *)
(* the dry run flag, the desired contacts, the remote records, the request *)
(* and action logs, the value the last call returned and the exception     *)
(* raised, if any.                                                         *)
(* Where one statement follows another, the world the first leaves is      *)
(* bound once, as the member of a one-element set, and handed to the next. *)
(***************************************************************************)
\* what the service answers: the HTTP status, whether the body is JSON, its "stat"
OkResponse == [status_code |-> 200, json |-> TRUE, stat |-> "ok"]
Faults ==
    {[status_code |-> 404, json |-> FALSE, stat |-> ""],
     [status_code |-> 200, json |-> FALSE, stat |-> ""],
     [status_code |-> 200, json |-> TRUE, stat |-> "fail"]}

World ==
    [dry_run |-> dry_run, cs |-> contacts, rc |-> remoteContacts, rm |-> remoteMonitors,
     nextId |-> nextId,
     calls |-> << >>, emitted |-> << >>, fetched |-> << >>, existing |-> {},
     fetchedContacts |-> << >>, fetchedMonitors |-> << >>, ret |-> RNone, err |-> "",
     page |-> ServerPage(<< >>, 0, PageLimit), limit |-> PageLimit,
     failAt |-> 0, raises |-> FALSE]

\* the service fails the failAt-th request of a sync()
Failed(w) == Len(w.calls) + 1 = w.failAt

\* the service applies a request
RemoteApply(w, method, params) ==
    CASE method = "newAlertContact" ->
            [w EXCEPT !.rc = Append(@, RemoteContactOf(IdText(w.nextId), params)),
                      !.nextId = @ + 1, !.ret = RS(IdText(w.nextId))]
      [] method = "deleteAlertContact" ->
            [w EXCEPT !.rc = SelectOther(@, StrOf(params.alertContactID)), !.ret = RNone]
      [] method = "newMonitor" ->
            [w EXCEPT !.rm = Append(@, RemoteMonitorOf(IdText(w.nextId), params)),
                      !.nextId = @ + 1, !.ret = RS(IdText(w.nextId))]
      [] method = "editMonitor" ->
            [w EXCEPT !.rm = [i \in 1..Len(@) |->
                                IF @[i].id = StrOf(params.id)
                                THEN RemoteMonitorOf(@[i].id, params) ELSE @[i]],
                      !.ret = RNone]
      [] method = "deleteMonitor" ->
            [w EXCEPT !.rm = SelectOther(@, StrOf(params.monitorID)), !.ret = RNone]
      [] method = "getAlertContacts" ->
            [w EXCEPT !.page = ServerPage([i \in 1..Len(w.rc) |-> ContactJson(w.rc[i])],
                                          IF params.offset.t = "int" THEN params.offset.i ELSE 0,
                                          w.limit),
                      !.ret = RNone]
      [] method = "getMonitors" ->
            [w EXCEPT !.page = ServerPage([i \in 1..Len(w.rm) |-> MonitorJson(w.rm[i])],
                                          IF params.offset.t = "int" THEN params.offset.i ELSE 0,
                                          w.limit),
                      !.ret = RNone]
      [] OTHER -> w

\* _api_post that accepts any body that is JSON
Raises_IgnoreStat(resp) == resp.status_code # 200 \/ ~resp.json

\* UptimeRobot._api_post: the three checks of the response
Raises(resp) == resp.status_code # 200 \/ ~resp.json \/ resp.stat # "ok"

\* UptimeRobot._api_post: the request is sent; the service applies it unless it
\* answers with a failure, and w.raises tells whether the checks of the response
\* (Raises) then raise
ApiPost(w, method, params) ==
    IF w.err # "" THEN w
    ELSE LET w1 == IF Failed(w) THEN [w EXCEPT !.ret = RNone]
                   ELSE RemoteApply(w, method, params)
             w2 == [w1 EXCEPT !.calls = Append(@, [method |-> method, params |-> params,
                                                   ret |-> w1.ret, ok |-> ~Failed(w)])]
         IN IF Failed(w) /\ w.raises THEN [w2 EXCEPT !.err = "UptimeRobotAPIError"]
            ELSE IF Raises(OkResponse) THEN [w2 EXCEPT !.err = "UptimeRobotAPIError"]
            ELSE w2

\* an action is decided: the logger.info line of the _api_* method
Emit(w, op, kind, e, src, decl, sent) ==
    [w EXCEPT !.emitted = Append(@,
        [op |-> op, kind |-> kind, name |-> Name(kind, e), id |-> IdOf(e),
         src |-> src, decl |-> decl, call |-> IF sent THEN Len(w.calls) + 1 ELSE 0])]

\* _api_delete_contact without the dry_run return
ApiDeleteContact_NoDryRun(w, contact, src) ==
    IF w.err # "" THEN w
    ELSE ApiPost(Emit(w, "delete", "contact", contact, src, 0, TRUE),
                 "deleteAlertContact", ContactParamsDelete(contact))

\* UptimeRobot._api_delete_contact
ApiDeleteContact(w, contact, src) ==
    IF w.err # "" THEN w
    ELSE IF w.dry_run THEN Emit(w, "delete", "contact", contact, src, 0, FALSE)
    ELSE ApiPost(Emit(w, "delete", "contact", contact, src, 0, TRUE),
                 "deleteAlertContact", ContactParamsDelete(contact))

\* UptimeRobot._api_create_contact: returns the new id, or None in a dry run
ApiCreateContact(w, contact, src, decl) ==
    IF w.err # "" THEN w
    ELSE IF w.dry_run
    THEN [Emit(w, "create", "contact", contact, src, decl, FALSE) EXCEPT !.ret = RNone]
    ELSE ApiPost(Emit(w, "create", "contact", contact, src, decl, TRUE),
                 "newAlertContact", ContactParamsCreate(contact))

\* UptimeRobot._api_update_contact: Contact defines no _params_update, so the
\* edit of a contact of unchanged type raises AttributeError
ApiUpdateContact(w, old, new, src) ==
    IF GetItem(old, "type") # GetItem(new, "type")
    THEN [ApiCreateContact(ApiDeleteContact(w, old, src), new, src, 0) EXCEPT !.ret = RNone]
    ELSE IF w.dry_run THEN Emit(w, "update", "contact", new, src, 0, FALSE)
    ELSE [Emit(w, "update", "contact", new, src, 0, FALSE) EXCEPT !.err = "AttributeError"]

\* UptimeRobot._api_delete_monitor
ApiDeleteMonitor(w, monitor, src) ==
    IF w.err # "" THEN w
    ELSE IF w.dry_run THEN Emit(w, "delete", "monitor", monitor, src, 0, FALSE)
    ELSE ApiPost(Emit(w, "delete", "monitor", monitor, src, 0, TRUE),
                 "deleteMonitor", MonitorParamsDelete(monitor))

\* UptimeRobot._api_create_monitor
ApiCreateMonitor(w, monitor, src, decl) ==
    IF w.err # "" THEN w
    ELSE IF w.dry_run THEN Emit(w, "create", "monitor", monitor, src, decl, FALSE)
    ELSE [ApiPost(Emit(w, "create", "monitor", monitor, src, decl, TRUE),
                  "newMonitor", MonitorParamsCreate(monitor, w.cs)) EXCEPT !.ret = RNone]

\* _api_update_monitor without the type comparison
ApiUpdateMonitor_NoTypeCheck(w, old, new, src) ==
    IF w.dry_run THEN Emit(w, "update", "monitor", new, src, 0, FALSE)
    ELSE [ApiPost(Emit(w, "update", "monitor", new, src, 0, TRUE), "editMonitor",
                  ("id" :> GetItem(old, "id")) @@ MonitorParamsCreate(new, w.cs))
            EXCEPT !.ret = RNone]

\* _api_update_monitor with the dry_run return before the type comparison
ApiUpdateMonitor_DryRunFirst(w, old, new, src) ==
    IF w.dry_run THEN Emit(w, "update", "monitor", new, src, 0, FALSE)
    ELSE IF GetItem(old, "type") # GetItem(new, "type")
    THEN ApiCreateMonitor(ApiDeleteMonitor(w, old, src), new, src, 0)
    ELSE [ApiPost(Emit(w, "update", "monitor", new, src, 0, TRUE), "editMonitor",
                  ("id" :> GetItem(old, "id")) @@ MonitorParamsCreate(new, w.cs))
            EXCEPT !.ret = RNone]

\* UptimeRobot._api_update_monitor
ApiUpdateMonitor(w, old, new, src) ==
    IF GetItem(old, "type") # GetItem(new, "type")
    THEN ApiCreateMonitor(ApiDeleteMonitor(w, old, src), new, src, 0)
    ELSE IF w.dry_run THEN Emit(w, "update", "monitor", new, src, 0, FALSE)
    ELSE [ApiPost(Emit(w, "update", "monitor", new, src, 0, TRUE), "editMonitor",
                  ("id" :> GetItem(old, "id")) @@ MonitorParamsCreate(new, w.cs))
            EXCEPT !.ret = RNone]

(***************************************************************************)
(* Inputs.                                                                 *)
(***************************************************************************)
EmailInputs == {<<S_a, EmptyStr>>, <<S_a, S_n>>, <<S_b, EmptyStr>>}
BoxcarInputs == {<<S_a, EmptyStr>>}
KeywordInputs == {<<S_m1, EmptyStr>>, <<S_m1, S_usr>>, <<S_m2, EmptyStr>>}
PortInputs == {<<S_m1, 25>>}
Thresholds == {0}

\* records the service may hold before the first sync(): e-mail contacts
\* named after their address, keyword monitors alerting nobody or contact "01"
RemoteContactShapes ==
    {RemoteContactOf(EmptyStr,
        [alertContactType |-> RI(TYPE_EMAIL), alertContactValue |-> RS(v),
         alertContactFriendlyName |-> RS(v)]) : v \in {S_a, S_b}}

RemoteMonitorShapes ==
    {RemoteMonitorOf(EmptyStr,
        [monitorFriendlyName |-> RS(S_m1), monitorURL |-> RS(S_url),
         monitorType |-> RI(TYPE_KEYWORD), monitorSubType |-> RI(0), monitorPort |-> RI(0),
         monitorKeywordType |-> RI(2), monitorKeywordValue |-> RS(S_kw),
         monitorHTTPUsername |-> RS(EmptyStr), monitorHTTPPassword |-> RS(EmptyStr),
         monitorInterval |-> RI(DEFAULT_INTERVAL * 60), monitorAlertContacts |-> RS(ac)]) :
        ac \in {EmptyStr, ContactStr(<<RS(IdText(1)), RI(0), RI(0)>>)}}

WithIds(shapes, base) ==
    [i \in 1..Len(shapes) |-> [shapes[i] EXCEPT !.id = IdText(base + i)]]

SeqsUpTo(S, n) == UNION {[1..k -> S] : k \in 0..n}

\* no function has been applied on its own
NoFn == [fn |-> ""]

Init ==
    /\ dry_run \in BOOLEAN
    /\ contacts = << >>
    /\ monitors = << >>
    /\ \E rc \in SeqsUpTo(RemoteContactShapes, MaxRemote) :
       \E rm \in SeqsUpTo(RemoteMonitorShapes, MaxRemote - Len(rc)) :
          /\ remoteContacts = WithIds(rc, 0)
          /\ remoteMonitors = WithIds(rm, Len(rc))
          /\ nextId = Len(rc) + Len(rm) + 1
    /\ pc = "declare"
    /\ fetchedContacts = << >>
    /\ fetchedMonitors = << >>
    /\ calls = << >>
    /\ emitted = << >>
    /\ run = 0
    /\ fnArgs = NoFn
    /\ fnResult = NoFn

(***************************************************************************)
(* Declarations.                                                           *)
(***************************************************************************)
RECURSIVE Associations(_)
Associations(ms) == IF ms = << >> THEN 0 ELSE Len(Head(ms).added) + Associations(Tail(ms))

\* declarations and associations made so far
Declared == Len(contacts) + Len(monitors) + Associations(monitors)

\* contact() that registers whatever it is given
DeclareContact_NoAssert(type, value, friendlyname) ==
    LET c == Construct("contact", ContactKwargs(type, value, friendlyname))
    IN /\ pc = "declare"
       /\ Declared < MaxDesired
       /\ contacts' = Append(contacts, c)
       /\ UNCHANGED <<dry_run, monitors, remoteContacts, remoteMonitors, nextId, pc,
                      fetchedContacts, fetchedMonitors, calls, emitted, run,
                      fnArgs, fnResult>>

\* UptimeRobot.contact: the assert rejects a second contact of the same name,
\* and the script ends with the AssertionError
DeclareContact(type, value, friendlyname) ==
    LET c == Construct("contact", ContactKwargs(type, value, friendlyname))
    IN /\ pc = "declare"
       /\ IF IndexOf("contact", contacts, Name("contact", c)) = 0
          THEN Declared < MaxDesired /\ contacts' = Append(contacts, c) /\ pc' = pc
          ELSE contacts' = contacts /\ pc' = "AssertionError"
       /\ UNCHANGED <<dry_run, monitors, remoteContacts, remoteMonitors, nextId,
                      fetchedContacts, fetchedMonitors, calls, emitted, run,
                      fnArgs, fnResult>>

\* UptimeRobot.email_contact: an empty name becomes the address
EmailContact ==
    \E in \in EmailInputs :
        DeclareContact(TYPE_EMAIL, in[1], IF in[2] = EmptyStr THEN in[1] ELSE in[2])

\* UptimeRobot.boxcar_contact
BoxcarContact ==
    \E in \in BoxcarInputs : DeclareContact(TYPE_BOXCAR, in[1], in[2])

\* keyword_monitor / port_monitor from the Monitor(...) call on: the assert
\* rejects a second monitor of the same name
DeclareMonitor(kwargs) ==
    LET m == Construct("monitor", kwargs)
    IN /\ pc = "declare"
       /\ IF IndexOf("monitor", monitors, Name("monitor", m)) = 0
          THEN Declared < MaxDesired /\ monitors' = Append(monitors, m) /\ pc' = pc
          ELSE monitors' = monitors /\ pc' = "AssertionError"
       /\ UNCHANGED <<dry_run, contacts, remoteContacts, remoteMonitors, nextId,
                      fetchedContacts, fetchedMonitors, calls, emitted, run,
                      fnArgs, fnResult>>

\* UptimeRobot.keyword_monitor
KeywordMonitor ==
    \E in \in KeywordInputs :
        DeclareMonitor(KeywordMonitorKwargs(in[1], S_url, S_kw, TRUE, in[2], EmptyStr,
                                            DEFAULT_INTERVAL))

\* UptimeRobot.port_monitor
PortMonitor ==
    \E in \in PortInputs :
        DeclareMonitor(PortMonitorKwargs(in[1], S_url, in[2], DEFAULT_INTERVAL))

\* a handle given to add_contacts: a Contact (the c-th declared), or something else
ContactHandle(c) == [type |-> "Contact", c |-> c]
OtherHandle == [type |-> "str", c |-> 0]

\* Monitor.add_contacts, the loop over args: each handle is checked and then
\* appended, so the handles before one that is no Contact stay appended
RECURSIVE AddLoop(_, _, _, _)
AddLoop(m, args, threshold, recurrence) ==
    IF args = << >> THEN [m |-> m, err |-> ""]
    ELSE IF Head(args).type # "Contact" THEN [m |-> m, err |-> "AssertionError"]
    ELSE AddLoop([m EXCEPT !.added = Append(@, <<Head(args).c, threshold, recurrence>>)],
                 Tail(args), threshold, recurrence)

\* Monitor.add_contacts(*args, **kwargs): the keywords are checked first
AddContactsOf(m, args, kwargs) ==
    IF \E key \in DOMAIN kwargs : key \notin {"threshold", "recurrence"}
    THEN [m |-> m, err |-> "AssertionError"]
    ELSE AddLoop(m, args,
                 IF "threshold" \in DOMAIN kwargs THEN kwargs["threshold"] ELSE 0,
                 IF "recurrence" \in DOMAIN kwargs THEN kwargs["recurrence"] ELSE 0)

\* Monitor.add_contacts with one Contact handle
AddContacts ==
    \E k \in 1..Len(monitors), c \in 1..Len(contacts), threshold \in Thresholds :
        /\ pc = "declare"
        /\ Declared < MaxDesired
        /\ monitors' = [monitors EXCEPT ![k] =
                           AddContactsOf(@, <<ContactHandle(c)>>,
                                         [threshold |-> threshold]).m]
        /\ UNCHANGED <<dry_run, contacts, remoteContacts, remoteMonitors, nextId, pc,
                       fetchedContacts, fetchedMonitors, calls, emitted, run,
                      fnArgs, fnResult>>

(***************************************************************************)
(* sync().                                                                 *)
(***************************************************************************)
\* _api_post_paginated that stops after the first page
ApiPostPaginated_FirstPage(w, method, offset) ==
    CHOOSE result \in
        {IF w1.err # "" THEN w1 ELSE [w1 EXCEPT !.fetched = @ \o w1.page.items] :
           w1 \in {ApiPost(w, method, [offset |-> offset])}} : TRUE

\* _api_post_paginated that goes on while total >= offset + limit
RECURSIVE ApiPostPaginated_OneMore(_, _, _)
ApiPostPaginated_OneMore(w, method, offset) ==
    CHOOSE result \in
        {IF w1.err # "" THEN w1
         ELSE IF w1.page.total >= w1.page.offset + w1.page.limit
         THEN ApiPostPaginated_OneMore([w1 EXCEPT !.fetched = @ \o w1.page.items], method,
                                       RI(w1.page.offset + w1.page.limit))
         ELSE [w1 EXCEPT !.fetched = @ \o w1.page.items] :
           w1 \in {ApiPost(w, method, [offset |-> offset])}} : TRUE

\* UptimeRobot._api_post_paginated: the while loop, from the request at the
\* given params["offset"] (None on the first request) on
RECURSIVE ApiPostPaginated(_, _, _)
ApiPostPaginated(w, method, offset) ==
    CHOOSE result \in
        {IF w1.err # "" THEN w1
         ELSE IF w1.page.total > w1.page.offset + w1.page.limit
         THEN ApiPostPaginated([w1 EXCEPT !.fetched = @ \o w1.page.items], method,
                               RI(w1.page.offset + w1.page.limit))
         ELSE [w1 EXCEPT !.fetched = @ \o w1.page.items] :
           w1 \in {ApiPost(w, method, [offset |-> offset])}} : TRUE

\* _sync_contacts that puts the fetched contact in the place of the declared one
ContactsExistingStep_Replace(w, i) ==
    LET c == Construct("contact", w.fetched[i])
        k == IndexOf("contact", w.cs, Name("contact", c))
    IN IF ~ConstructOk("contact", w.fetched[i])
       THEN [w EXCEPT !.err = ConstructRaises("contact", w.fetched[i])]
       ELSE IF k = 0 THEN ApiDeleteContact(w, c, i)
       ELSE LET w1 == [w EXCEPT !.existing = @ \cup {Name("contact", c)}, !.cs[k] = c]
            IN IF ~SyncableEq("contact", c, w.cs[k])
               THEN ApiUpdateContact(w1, c, w.cs[k], i)
               ELSE w1

\* _sync_contacts that copies the id of the first record of a name only
ContactsExistingStep_KeepFirst(w, i) ==
    LET c == Construct("contact", w.fetched[i])
        k == IndexOf("contact", w.cs, Name("contact", c))
    IN IF ~ConstructOk("contact", w.fetched[i])
       THEN [w EXCEPT !.err = ConstructRaises("contact", w.fetched[i])]
       ELSE IF k = 0 THEN ApiDeleteContact(w, c, i)
       ELSE LET w1 == [w EXCEPT !.existing = @ \cup {Name("contact", c)},
                                !.cs[k] = IF Name("contact", c) \in w.existing THEN @
                                          ELSE SetItem(@, "id", GetItem(c, "id"))]
            IN IF ~SyncableEq("contact", c, w1.cs[k])
               THEN ApiUpdateContact(w1, c, w1.cs[k], i)
               ELSE w1

\* _sync_contacts, one turn of the loop over the fetched contacts
ContactsExistingStep(w, i) ==
    LET c == Construct("contact", w.fetched[i])
        k == IndexOf("contact", w.cs, Name("contact", c))
    IN IF ~ConstructOk("contact", w.fetched[i])
       THEN [w EXCEPT !.err = ConstructRaises("contact", w.fetched[i])]
       ELSE IF k = 0 THEN ApiDeleteContact(w, c, i)
       ELSE LET w1 == [w EXCEPT !.existing = @ \cup {Name("contact", c)},
                                !.cs[k] = SetItem(@, "id", GetItem(c, "id"))]
            IN IF ~SyncableEq("contact", c, w1.cs[k])
               THEN ApiUpdateContact(w1, c, w1.cs[k], i)
               ELSE w1

\* _sync_contacts, one turn of the loop over the declared contacts: the id the
\* create returns is stored in the contact
ContactsCreateStep(w, j) ==
    IF Name("contact", w.cs[j]) \in w.existing THEN w
    ELSE LET w1 == ApiCreateContact(w, w.cs[j], 0, j)
         IN [w1 EXCEPT !.cs[j] = SetItem(@, "id", w1.ret)]

\* _sync_monitors, one turn of the loop over the fetched monitors
MonitorsExistingStep(w, i) ==
    LET m == Construct("monitor", w.fetched[i])
        k == IndexOf("monitor", monitors, Name("monitor", m))
    IN IF ~ConstructOk("monitor", w.fetched[i])
       THEN [w EXCEPT !.err = ConstructRaises("monitor", w.fetched[i])]
       ELSE IF k = 0 THEN ApiDeleteMonitor(w, m, i)
       ELSE LET w1 == [w EXCEPT !.existing = @ \cup {Name("monitor", m)}]
            IN IF ~MonitorEq(m, monitors[k], w1.cs)
               THEN ApiUpdateMonitor(w1, m, monitors[k], i)
               ELSE w1

\* _sync_monitors, one turn of the loop over the declared monitors
MonitorsCreateStep(w, j) ==
    IF Name("monitor", monitors[j]) \in w.existing THEN w
    ELSE ApiCreateMonitor(w, monitors[j], 0, j)

\* a for loop: turns i..n, left as soon as one raises
RECURSIVE Loop(_, _, _, _)
Loop(w, kindStep, i, n) ==
    IF i > n \/ w.err # "" THEN w
    ELSE CHOOSE result \in
            {Loop(w1, kindStep, i + 1, n) :
               w1 \in {CASE kindStep = "contacts_existing" -> ContactsExistingStep(w, i)
                         [] kindStep = "contacts_create" -> ContactsCreateStep(w, i)
                         [] kindStep = "monitors_existing" -> MonitorsExistingStep(w, i)
                         [] kindStep = "monitors_create" -> MonitorsCreateStep(w, i)}} : TRUE

\* UptimeRobot._sync_contacts
SyncContactsOf(w) ==
    CHOOSE result \in
        {Loop(w2, "contacts_create", 1, Len(w2.cs)) :
           w2 \in {Loop([w1 EXCEPT !.fetchedContacts = w1.fetched],
                        "contacts_existing", 1, Len(w1.fetched)) :
                     w1 \in {ApiPostPaginated([w EXCEPT !.fetched = << >>, !.existing = {}],
                                              "getAlertContacts", RNone)}}} : TRUE

\* _sync_monitors with the loop over the declared monitors first
SyncMonitorsOf_CreateFirst(w) ==
    CHOOSE result \in
        {Loop(w2, "monitors_existing", 1, Len(w2.fetched)) :
           w2 \in {Loop([w1 EXCEPT !.fetchedMonitors = w1.fetched],
                        "monitors_create", 1, Len(monitors)) :
                     w1 \in {ApiPostPaginated([w EXCEPT !.fetched = << >>, !.existing = {}],
                                              "getMonitors", RNone)}}} : TRUE

\* UptimeRobot._sync_monitors
SyncMonitorsOf(w) ==
    CHOOSE result \in
        {Loop(w2, "monitors_create", 1, Len(monitors)) :
           w2 \in {Loop([w1 EXCEPT !.fetchedMonitors = w1.fetched],
                        "monitors_existing", 1, Len(w1.fetched)) :
                     w1 \in {ApiPostPaginated([w EXCEPT !.fetched = << >>, !.existing = {}],
                                              "getMonitors", RNone)}}} : TRUE

\* sync() with the two passes in the other order
SyncOf_MonitorsFirst(w) ==
    CHOOSE result \in
        {IF w1.err # "" THEN w1 ELSE SyncContactsOf(w1) : w1 \in {SyncMonitorsOf(w)}} : TRUE

\* UptimeRobot.sync: contacts, then monitors; when the first pass raises the
\* second is not run
SyncOf(w) ==
    CHOOSE result \in
        {IF w1.err # "" THEN w1 ELSE SyncMonitorsOf(w1) : w1 \in {SyncContactsOf(w)}} : TRUE

\* sync() is called (again, any number of times, once a sync has returned) and
\* returns or raises; the
\* service answers every request, or fails one of them with any of its faults
Sync ==
    /\ pc \in {"declare", "done"}
    /\ run' = IF run = 0 THEN 1 ELSE 2
    /\ \E start \in {World} :
       \E w0 \in {SyncOf(start)} :
       \E failAt \in 0..Len(w0.calls), raises \in {Raises(fault) : fault \in Faults} :
       \E w \in {IF failAt = 0 THEN w0
                 ELSE SyncOf([start EXCEPT !.failAt = failAt, !.raises = raises])} :
          /\ contacts' = w.cs
          /\ remoteContacts' = w.rc
          /\ remoteMonitors' = w.rm
          /\ nextId' = w.nextId
          /\ fetchedContacts' = w.fetchedContacts
          /\ fetchedMonitors' = w.fetchedMonitors
          /\ calls' = w.calls
          /\ emitted' = w.emitted
          /\ pc' = IF w.err # "" THEN "raised" ELSE "done"
    /\ UNCHANGED <<dry_run, monitors, fnArgs, fnResult>>

Next ==
    \/ EmailContact
    \/ BoxcarContact
    \/ KeywordMonitor
    \/ PortMonitor
    \/ AddContacts
    \/ Sync

Spec == Init /\ [][Next]_vars

(***************************************************************************)
(* The functions on their own.  A second specification applies             *)
(* _api_post_paginated, __eq__ and the constructors to arguments drawn     *)
(* from bounded sets, one application per behaviour.                        *)
(***************************************************************************)
Program == <<dry_run, contacts, monitors, remoteContacts, remoteMonitors, nextId, pc,
             fetchedContacts, fetchedMonitors, calls, emitted, run>>

InitFn ==
    /\ dry_run = FALSE
    /\ contacts = << >>
    /\ monitors = << >>
    /\ remoteContacts = << >>
    /\ remoteMonitors = << >>
    /\ nextId = 1
    /\ pc = "fn"
    /\ fetchedContacts = << >>
    /\ fetchedMonitors = << >>
    /\ calls = << >>
    /\ emitted = << >>
    /\ run = 0
    /\ fnArgs = NoFn
    /\ fnResult = NoFn

\* a remote collection of `total` contacts, told apart by their ids
RecordsOf(total) ==
    WithIds([i \in 1..total |-> CHOOSE r \in RemoteContactShapes : r.value = S_a], 0)

\* _api_post_paginated("getAlertContacts", ...) against a service that holds
\* `total` contacts and answers with pages of `limit`
CallApiPostPaginated ==
    \E total \in 0..MaxTotal, limit \in 1..MaxLimit :
    \E w \in {ApiPostPaginated([World EXCEPT !.rc = RecordsOf(total), !.limit = limit],
                                "getAlertContacts", RNone)} :
        /\ fnArgs = NoFn
        /\ fnArgs' = [fn |-> "_api_post_paginated", limit |-> limit,
                      records |-> [i \in 1..total |-> ContactJson(RecordsOf(total)[i])]]
        /\ fnResult' = [result |-> w.fetched,
                        offsets |-> [i \in 1..Len(w.calls) |-> w.calls[i].params.offset]]
        /\ UNCHANGED Program

\* keyword arguments of Contact(...): as contact() passes them, and as
\* getAlertContacts reports them (numbers as digits, with an id)
ContactArgs ==
    {ContactKwargs(t, v, n) :
        t \in {TYPE_EMAIL, TYPE_BOXCAR}, v \in {S_a, S_b}, n \in {EmptyStr, S_n}}
    \cup
    {ContactJson(RemoteContactOf(IdText(id),
        [alertContactType |-> RI(t), alertContactValue |-> RS(v),
         alertContactFriendlyName |-> RS(n)])) :
        id \in {1, 2}, t \in {TYPE_EMAIL, TYPE_BOXCAR}, v \in {S_a, S_b}, n \in {EmptyStr, S_n}}

\* Contact.__eq__ on two contacts
CallContactEq ==
    \E a, b \in ContactArgs :
        /\ fnArgs = NoFn
        /\ fnArgs' = [fn |-> "Contact.__eq__", a |-> a, b |-> b]
        /\ fnResult' = [result |-> SyncableEq("contact", Construct("contact", a),
                                              Construct("contact", b))]
        /\ UNCHANGED Program

\* the contacts that monitors are given: contact 1 has id "01", contact 2 "02"
FnContacts ==
    [c \in 1..2 |->
        Construct("contact", ContactJson(RemoteContactOf(IdText(c),
            [alertContactType |-> RI(TYPE_EMAIL),
             alertContactValue |-> RS(IF c = 1 THEN S_a ELSE S_b),
             alertContactFriendlyName |-> RS(EmptyStr)])))]

\* <<contact, threshold, recurrence>>, and the lists of them without a repetition
Triples == {<<1, 0, 0>>, <<1, 5, 0>>, <<2, 0, 0>>}
AddedSeqs ==
    {q \in SeqsUpTo(Triples, MaxAssoc) : \A i, j \in 1..Len(q) : q[i] = q[j] => i = j}

\* a monitor as keyword_monitor() and add_contacts() make it, and as getMonitors
\* reports it
MonitorArgs ==
    {[kwargs |-> KeywordMonitorKwargs(S_m1, S_url, S_kw, TRUE, u, EmptyStr, DEFAULT_INTERVAL),
      added |-> q] : u \in {EmptyStr, S_usr}, q \in AddedSeqs}
    \cup
    {[kwargs |-> MonitorJson(
                    [(CHOOSE r \in RemoteMonitorShapes : r.alertcontact = << >>)
                        EXCEPT !.id = IdText(3), !.httpusername = u,
                               !.alertcontact =
                                  [i \in 1..Len(q) |->
                                      [id |-> IdText(q[i][1]), threshold |-> q[i][2],
                                       recurrence |-> q[i][3]]]]),
      added |-> << >>] : u \in {EmptyStr, S_usr}, q \in AddedSeqs}

\* Monitor(**kwargs), then add_contacts for each triple
Build(m) == [Construct("monitor", m.kwargs) EXCEPT !.added = m.added]

\* Monitor.__eq__ on two monitors, and the _contacts of each
CallMonitorEq ==
    \E a, b \in MonitorArgs :
        /\ fnArgs = NoFn
        /\ fnArgs' = [fn |-> "Monitor.__eq__", a |-> a, b |-> b]
        /\ fnResult' = [result |-> MonitorEq(Build(a), Build(b), FnContacts),
                        a_contacts |-> MonitorContacts(Build(a), FnContacts),
                        b_contacts |-> MonitorContacts(Build(b), FnContacts)]
        /\ UNCHANGED Program

\* keyword arguments with any of the fields absent, empty, zero, a number, digits
\* or text that is no number
ArgFields(kind) ==
    IF kind = "contact" THEN {"value", "type", "friendlyname"}
    ELSE {"friendlyname", "url", "type", "port"}
ArgValues(f) ==
    IF f \in IntFields THEN {RI(2), RI(0), RS(<<50>>), RS(S_a)}
    ELSE {RS(S_a), RS(EmptyStr)}
ConstructArgs(kind) ==
    {[f \in D |-> g[f]] :
        D \in SUBSET ArgFields(kind),
        g \in {h \in [ArgFields(kind) -> UNION {ArgValues(f) : f \in ArgFields(kind)}] :
                  \A f \in ArgFields(kind) : h[f] \in ArgValues(f)}}

\* Contact(**kwargs) / Monitor(**kwargs)
CallConstruct ==
    \E kind \in {"contact", "monitor"} :
    \E kwargs \in ConstructArgs(kind) :
        /\ fnArgs = NoFn
        /\ fnArgs' = [fn |-> "__init__", kind |-> kind, kwargs |-> kwargs]
        /\ fnResult' = [raises |-> ConstructRaises(kind, kwargs),
                        entity |-> IF ConstructOk(kind, kwargs) THEN Construct(kind, kwargs)
                                   ELSE NewEntity]
        /\ UNCHANGED Program

\* what add_contacts is given: up to MaxAssoc handles, some of them no Contact,
\* and keywords, one of them misspelt
Handles == {ContactHandle(1), ContactHandle(2), OtherHandle}
AddKwargs ==
    {EmptyMap, [threshold |-> 5], [threshold |-> 5, recurrence |-> 1], [treshold |-> 5]}

\* Monitor.add_contacts on a monitor that has no contact or one contact added
CallAddContacts ==
    \E added \in {<< >>, <<<<1, 0, 0>>>>}, args \in SeqsUpTo(Handles, MaxAssoc),
       kwargs \in AddKwargs :
    \E r \in {AddContactsOf(
                 Build([kwargs |-> KeywordMonitorKwargs(S_m1, S_url, S_kw, TRUE, EmptyStr,
                                                        EmptyStr, DEFAULT_INTERVAL),
                        added |-> added]), args, kwargs)} :
        /\ fnArgs = NoFn
        /\ fnArgs' = [fn |-> "add_contacts", added |-> added, args |-> args,
                      kwargs |-> kwargs]
        /\ fnResult' = [raises |-> r.err, added |-> r.m.added]
        /\ UNCHANGED Program

NextFn ==
    \/ CallApiPostPaginated
    \/ CallContactEq
    \/ CallMonitorEq
    \/ CallConstruct
    \/ CallAddContacts

SpecFn == InitFn /\ [][NextFn]_vars

(***************************************************************************)
(* Properties.                                                             *)
(***************************************************************************)
ContactFetch == {"getAlertContacts"}
MonitorFetch == {"getMonitors"}
ContactMutations == {"newAlertContact", "editAlertContact", "deleteAlertContact"}
MonitorMutations == {"newMonitor", "editMonitor", "deleteMonitor"}
Mutations == ContactMutations \cup MonitorMutations

Methods == {calls[i].method : i \in 1..Len(calls)}
Synced == run > 0 /\ pc \in {"done", "raised"}

\* a stored value, read without __getitem__
Stored(e, f) ==
    IF f \in IntFields THEN RI(IF f \in DOMAIN e.iv THEN e.iv[f] ELSE 0)
    ELSE RS(IF f \in DOMAIN e.sv THEN e.sv[f] ELSE EmptyStr)

\* the fetched records as the entities the passes built from them
FetchedContact(i) == Construct("contact", fetchedContacts[i])
RemoteContact(i) == Construct("contact", ContactJson(remoteContacts[i]))
RemoteMonitor(i) == Construct("monitor", MonitorJson(remoteMonitors[i]))

\* C1: in every sync(), every request of the contact pass (fetch pages, creates,
\* updates, deletes) is sent before the first request of the monitor pass.
C1_ContactsBeforeMonitors ==
    \A i, j \in 1..Len(calls) :
        (/\ calls[i].method \in ContactFetch \cup ContactMutations
         /\ calls[j].method \in MonitorFetch \cup MonitorMutations) => i < j

C1_Witness ==
    /\ pc = "done"
    /\ Methods \cap ContactMutations # {}
    /\ Methods \cap MonitorMutations # {}

\* C2: in a dry run sync() sends no create, update or delete, it still sends the
\* contact fetch and (unless the contact fetch failed) the monitor fetch, and it
\* leaves the remote records as they were.
C2_DryRunReadOnly ==
    /\ [](dry_run /\ Synced =>
            /\ Methods \cap Mutations = {}
            /\ "getAlertContacts" \in Methods
            /\ (\A i \in 1..Len(calls) : calls[i].method = "getAlertContacts" => calls[i].ok)
                  => "getMonitors" \in Methods)
    /\ [][dry_run => UNCHANGED <<remoteContacts, remoteMonitors>>]_vars

C2_Witness ==
    /\ dry_run
    /\ pc = "done"
    /\ \E i, j, k \in 1..Len(emitted) :
         /\ emitted[i].op = "delete" /\ emitted[j].op = "create" /\ emitted[k].op = "update"
    /\ \E i, j \in 1..Len(emitted) : emitted[i].kind = "contact" /\ emitted[j].kind = "monitor"

\* field by field, read from what is stored
SameFields(kind, a, b) == \A f \in Range(FIELDS(kind)) : Stored(a, f) = Stored(b, f)

EmittedFor(kind, i) == SelectSeq(emitted, LAMBDA e : e.kind = kind /\ e.src = i)
\* the actions the create loop decided for one declared entity
EmittedForDecl(kind, j) == SelectSeq(emitted, LAMBDA e : e.kind = kind /\ e.decl = j)
EmittedNamed(kind, name) == SelectSeq(emitted, LAMBDA e : e.kind = kind /\ e.name = name)
Ops(es) == [k \in 1..Len(es) |-> es[k].op]

\* the contact pass returned: the monitor fetch is the statement after it
ContactsPassDone == Synced /\ "getMonitors" \in Methods
MonitorsPassDone == Synced /\ pc = "done"
PassDone(kind) == IF kind = "contact" THEN ContactsPassDone ELSE MonitorsPassDone

Last(seq) == seq[Len(seq)]
FetchedOf(kind) == IF kind = "contact" THEN fetchedContacts ELSE fetchedMonitors
FetchedEntity(kind, i) == Construct(kind, FetchedOf(kind)[i])
DeclaredOf(kind) == IF kind = "contact" THEN contacts ELSE monitors
DeleteMethod(kind) == IF kind = "contact" THEN "deleteAlertContact" ELSE "deleteMonitor"
CreateMethod(kind) == IF kind = "contact" THEN "newAlertContact" ELSE "newMonitor"
Kinds == {"contact", "monitor"}

\* the pass of this kind raised while it handled fetched record i
RaisedAt(kind, i) ==
    /\ pc = "raised"
    /\ ~PassDone(kind)
    /\ emitted # << >>
    /\ Last(emitted).kind = kind
    /\ Last(emitted).src = i

\* the pass of this kind handled fetched record i to the end of its loop turn
Handled(kind, i) ==
    /\ Synced
    /\ i \in 1..Len(FetchedOf(kind))
    /\ \/ PassDone(kind)
       \/ \E l \in 1..Len(FetchedOf(kind)) : RaisedAt(kind, l) /\ i < l
       \/ RaisedAt(kind, 0)

\* the parameters a create of a declared entity has to carry
ExpectedCreate(kind, e) ==
    IF kind = "contact"
    THEN [alertContactType |-> Stored(e, "type"), alertContactValue |-> Stored(e, "value"),
          alertContactFriendlyName |-> Stored(e, "friendlyname")]
    ELSE [monitorFriendlyName |-> Stored(e, "friendlyname"), monitorURL |-> Stored(e, "url"),
          monitorType |-> Stored(e, "type"), monitorSubType |-> Stored(e, "subtype"),
          monitorPort |-> Stored(e, "port"), monitorKeywordType |-> Stored(e, "keywordtype"),
          monitorKeywordValue |-> Stored(e, "keywordvalue"),
          monitorHTTPUsername |-> Stored(e, "httpusername"),
          monitorHTTPPassword |-> Stored(e, "httppassword"),
          monitorInterval |-> Stored(e, "interval"),
          monitorAlertContacts |-> RS(MonitorContacts(e, contacts))]

\* a decided delete of fetched record i, sent (unless dry run) with the id as fetched
IsDeleteOf(kind, e, i) ==
    /\ e.op = "delete"
    /\ e.id = FetchedOf(kind)[i].id.s
    /\ IF dry_run THEN e.call = 0
       ELSE /\ e.call \in 1..Len(calls)
            /\ calls[e.call].method = DeleteMethod(kind)
            /\ calls[e.call].params =
                 (IF kind = "contact" THEN [alertContactID |-> RS(FetchedOf(kind)[i].id.s)]
                  ELSE [monitorID |-> RS(FetchedOf(kind)[i].id.s)])

\* a decided create of declared entity k, sent (unless dry run) with its field values
IsCreateOf(kind, e, k) ==
    /\ e.op = "create"
    /\ e.name = Name(kind, DeclaredOf(kind)[k])
    /\ IF dry_run THEN e.call = 0
       ELSE /\ e.call \in 1..Len(calls)
            /\ calls[e.call].method = CreateMethod(kind)
            /\ calls[e.call].params = ExpectedCreate(kind, DeclaredOf(kind)[k])

\* a fetched entity and the declared entity of its name, of another type
TypeChanged(kind, fetched, k) ==
    /\ Name(kind, fetched) = Name(kind, DeclaredOf(kind)[k])
    /\ Stored(fetched, "type") # Stored(DeclaredOf(kind)[k], "type")

Recreated(i) ==
    /\ i \in 1..Len(fetchedContacts)
    /\ Ops(EmittedFor("contact", i)) = <<"delete", "create">>
    /\ EmittedFor("contact", i)[2].call \in 1..Len(calls)

C7_RenamedContactIsReplaced ==
    (~dry_run /\ Synced) =>
      \A i \in 1..Len(fetchedContacts), k \in 1..Len(contacts) :
        (/\ Handled("contact", i) \/ RaisedAt("contact", i)
         /\ Name("contact", FetchedContact(i)) = Name("contact", contacts[k])
         /\ Stored(FetchedContact(i), "type") = Stored(contacts[k], "type")
         /\ Stored(FetchedContact(i), "friendlyname") # Stored(contacts[k], "friendlyname")) =>
            LET es == EmittedFor("contact", i)
            IN /\ Len(es) = 2
               /\ IsDeleteOf("contact", es[1], i)
               /\ IsCreateOf("contact", es[2], k)

\* C8: when no dry run, after every Create (of a missing name or of a delete and
\* create again, of either kind) the declared entity's id is the id that the
\* remote returned for its latest Create.
C8_CreateStoresReturnedId ==
    (~dry_run /\ Synced) =>
      \A n \in 1..Len(emitted) :
        (/\ emitted[n].op = "create"
         /\ emitted[n].call \in 1..Len(calls)
         /\ calls[emitted[n].call].ok
         /\ \A n2 \in (n + 1)..Len(emitted) :
               ~(emitted[n2].op = "create" /\ emitted[n2].kind = emitted[n].kind
                 /\ emitted[n2].name = emitted[n].name)) =>
          LET kind == emitted[n].kind
              e == DeclaredOf(kind)[IndexOf(kind, DeclaredOf(kind), emitted[n].name)]
          IN Stored(e, "id") = calls[emitted[n].call].ret

\* the names the fetched records of a kind carry
FetchedNames(kind) ==
    {Name(kind, FetchedEntity(kind, i)) : i \in 1..Len(FetchedOf(kind))}

C10_ExtraIsDeletedOnce ==
    \A kind \in Kinds :
      \A i \in 1..Len(FetchedOf(kind)) :
        (/\ Handled(kind, i)
         /\ IndexOf(kind, DeclaredOf(kind), Name(kind, FetchedEntity(kind, i))) = 0) =>
            LET es == EmittedFor(kind, i)
            IN /\ Len(es) = 1
               /\ IsDeleteOf(kind, es[1], i)
               /\ \A n \in 1..Len(emitted) :
                    (emitted[n].kind = kind /\ emitted[n].name = es[1].name)
                       => emitted[n].op = "delete"

C10_Witness ==
    /\ pc = "done"
    /\ ~dry_run
    /\ \A kind \in Kinds :
         \E i \in 1..Len(FetchedOf(kind)) :
            /\ IndexOf(kind, DeclaredOf(kind), Name(kind, FetchedEntity(kind, i))) = 0
            /\ Head(FetchedOf(kind)[i].id.s) = 48

\* a fetched monitor and the declared monitor of its name: the same type, another
\* value of some other field or another alert contacts string
MonitorChanged(fetched, k) ==
    /\ Name("monitor", fetched) = Name("monitor", monitors[k])
    /\ Stored(fetched, "type") = Stored(monitors[k], "type")
    /\ \/ ~SameFields("monitor", fetched, monitors[k])
       \/ MonitorContacts(fetched, contacts) # MonitorContacts(monitors[k], contacts)

ResolvedId(c) ==
    LET creates == {n \in 1..Len(emitted) :
                      /\ emitted[n].kind = "contact"
                      /\ emitted[n].op = "create"
                      /\ emitted[n].name = Name("contact", contacts[c])
                      /\ emitted[n].call \in 1..Len(calls)
                      /\ calls[emitted[n].call].ok}
    IN IF creates = {} THEN Stored(contacts[c], "id")
       ELSE calls[emitted[CHOOSE n \in creates : \A n2 \in creates : n2 <= n].call].ret

C13_FailureAborts ==
    \A i \in 1..Len(calls) : ~calls[i].ok => (i = Len(calls) /\ pc = "raised")

C13_Witness ==
    /\ pc = "raised"
    /\ \E i, j \in 1..Len(calls) :
         /\ j < i
         /\ ~calls[i].ok
         /\ calls[i].method \in ContactMutations
         /\ calls[j].method \in ContactMutations
    /\ monitors # << >>

\* C14: after a dry run sync() a declared contact that no fetched record carries
\* has no id: it reads as the empty string.
C14_DryRunLeavesNoId ==
    (dry_run /\ pc = "done") =>
      \A k \in 1..Len(contacts) :
        (\A i \in 1..Len(fetchedContacts) :
            Name("contact", FetchedContact(i)) # Name("contact", contacts[k]))
          => Stored(contacts[k], "id") = RS(EmptyStr)

DistinctNames(kind) ==
    \A j, k \in 1..Len(DeclaredOf(kind)) :
        Name(kind, DeclaredOf(kind)[j]) = Name(kind, DeclaredOf(kind)[k]) => j = k

\* C16: no two declared contacts and no two declared monitors have the same name,
\* and the declaration that is rejected for its name leaves the declared contacts
\* and monitors as they were.
C16_DuplicateIsRejected ==
    /\ [](DistinctNames("contact") /\ DistinctNames("monitor"))
    /\ [][pc' = "AssertionError" => UNCHANGED <<contacts, monitors>>]_vars

C16_Witness ==
    /\ pc = "AssertionError"
    /\ Len(contacts) = 2
    /\ monitors # << >>

ValueOf(kwargs, f) ==
    IF f \in IntFields THEN RI(IF f \in DOMAIN kwargs THEN IntOf(kwargs[f]) ELSE 0)
    ELSE RS(IF f \in DOMAIN kwargs THEN StrOf(kwargs[f]) ELSE EmptyStr)

SameValues(kind, a, b) == \A f \in Range(FIELDS(kind)) : ValueOf(a, f) = ValueOf(b, f)

Fetched(m) == "alertcontact" \in DOMAIN m.kwargs

\* the (contact id, threshold, recurrence) triples a monitor argument holds
ArgTriples(m) ==
    IF Fetched(m)
    THEN {<<m.kwargs.alertcontact[i].id.s, m.kwargs.alertcontact[i].threshold.i,
            m.kwargs.alertcontact[i].recurrence.i>> : i \in 1..Len(m.kwargs.alertcontact)}
    ELSE {<<IdText(m.added[i][1]), m.added[i][2], m.added[i][3]>> : i \in 1..Len(m.added)}

\* C17: two contacts, or two monitors, with the same field values (and, for
\* monitors, the same alert contact triples) are equal whatever their ids are,
\* also when only one of them has an id.
C17_IdDoesNotAffectEquality ==
    /\ fnArgs.fn = "Contact.__eq__" =>
          (SameValues("contact", fnArgs.a, fnArgs.b) => fnResult.result)
    /\ fnArgs.fn = "Monitor.__eq__" =>
          ((SameValues("monitor", fnArgs.a.kwargs, fnArgs.b.kwargs)
              /\ ArgTriples(fnArgs.a) = ArgTriples(fnArgs.b)) => fnResult.result)

C17_Witness ==
    /\ fnArgs.fn = "Contact.__eq__"
    /\ "id" \in DOMAIN fnArgs.a
    /\ "id" \notin DOMAIN fnArgs.b
    /\ SameValues("contact", fnArgs.a, fnArgs.b)
    /\ fnResult.result

C19_AddOrderDoesNotMatter ==
    (/\ fnArgs.fn = "Monitor.__eq__"
     /\ ~Fetched(fnArgs.a)
     /\ ~Fetched(fnArgs.b)
     /\ Len(fnArgs.a.added) = Len(fnArgs.b.added)
     /\ Range(fnArgs.a.added) = Range(fnArgs.b.added))
       => fnResult.a_contacts = fnResult.b_contacts

C19_Witness ==
    /\ fnArgs.fn = "Monitor.__eq__"
    /\ ~Fetched(fnArgs.a)
    /\ ~Fetched(fnArgs.b)
    /\ Len(fnArgs.a.added) = 2
    /\ fnArgs.a.added # fnArgs.b.added
    /\ Range(fnArgs.a.added) = Range(fnArgs.b.added)
    /\ fnResult.a_contacts = fnResult.b_contacts

\* the fields a Contact and a Monitor cannot be made without
Required(kind) ==
    IF kind = "contact" THEN {"value", "type"} ELSE {"friendlyname", "url", "type"}

\* every value that __init__ stores in an integer field is a number
Coercible(kwargs) ==
    \A f \in DOMAIN kwargs :
        (f \in IntFields /\ Truthy(kwargs[f])) => IntDefined(kwargs[f])

LastOfName(kind, i) ==
    \A l \in (i + 1)..Len(FetchedOf(kind)) :
        Name(kind, FetchedEntity(kind, l)) # Name(kind, FetchedEntity(kind, i))

SameAsDeclared(kind, fetched, k) ==
    /\ Name(kind, fetched) = Name(kind, DeclaredOf(kind)[k])
    /\ SameFields(kind, fetched, DeclaredOf(kind)[k])
    /\ kind = "monitor" =>
          MonitorContacts(fetched, contacts) = MonitorContacts(monitors[k], contacts)

\* C22: a fetched record that equals the declared entity of its name makes the
\* pass decide nothing for it: no create, update or delete, and the create loop
\* does not create the name.
C22_EqualRecordCausesNothing ==
    \A kind \in Kinds :
      \A i \in 1..Len(FetchedOf(kind)) : \A fetched \in {FetchedEntity(kind, i)} :
      \A k \in 1..Len(DeclaredOf(kind)) :
        (SameAsDeclared(kind, fetched, k) /\ Handled(kind, i)) =>
            /\ EmittedFor(kind, i) = << >>
            /\ EmittedForDecl(kind, k) = << >>

C22_Witness ==
    /\ pc = "done"
    /\ ~dry_run
    /\ \A kind \in Kinds :
         \E i \in 1..Len(FetchedOf(kind)), k \in 1..Len(DeclaredOf(kind)) :
            SameAsDeclared(kind, FetchedEntity(kind, i), k)
    /\ \E k \in 1..Len(monitors) : monitors[k].added # << >>

WithoutId(e) ==
    [sv |-> [f \in DOMAIN e.sv \ {"id"} |-> e.sv[f]], iv |-> e.iv, added |-> e.added,
     cstr |-> e.cstr]
DesiredWithoutIds ==
    <<[k \in 1..Len(contacts) |-> WithoutId(contacts[k])],
      [k \in 1..Len(monitors) |-> WithoutId(monitors[k])]>>

\* C25: a sync(), dry run or not, returning or raising, leaves the declared
\* contacts and monitors as they were but for their ids: no entity is added or
\* removed, no field other than the id and no association changes.
C25_SyncChangesOnlyIds ==
    [][pc' \in {"done", "raised"} => DesiredWithoutIds' = DesiredWithoutIds]_vars

C25_Witness ==
    /\ pc = "raised"
    /\ ~dry_run
    /\ \E k \in 1..Len(contacts) :
         /\ "id" \in DOMAIN contacts[k].sv
         /\ "friendlyname" \in DOMAIN contacts[k].sv
    /\ \E k \in 1..Len(monitors) : monitors[k].added # << >>
    /\ \E n \in 1..Len(emitted) : emitted[n].op = "create" /\ emitted[n].kind = "contact"

\* fetched records i and l, i before l, carry the name of declared entity k
Duplicated(kind, i, l, k) ==
    /\ i < l
    /\ Name(kind, FetchedEntity(kind, i)) = Name(kind, DeclaredOf(kind)[k])
    /\ Name(kind, FetchedEntity(kind, l)) = Name(kind, DeclaredOf(kind)[k])

C27_SyncCompletes ==
    (pc = "raised" /\ ~dry_run) => \E i \in 1..Len(calls) : ~calls[i].ok

\* what was decided, without the requests it was sent with
Decisions(es) ==
    [n \in 1..Len(es) |->
        [op |-> es[n].op, kind |-> es[n].kind, name |-> es[n].name, id |-> es[n].id,
         src |-> es[n].src, decl |-> es[n].decl]]
\* the request that carries out a decision
MethodOf(e) ==
    IF e.op = "delete" THEN DeleteMethod(e.kind)
    ELSE IF e.op = "create" THEN CreateMethod(e.kind)
    ELSE IF e.kind = "contact" THEN "editAlertContact" ELSE "editMonitor"
MutatingOf(cs) == SelectSeq(cs, LAMBDA c : c.method \in Mutations)

\* C28: when a sync() that is no dry run returns, its creates, updates and deletes
\* are, one request each and in the same order, the actions that a dry run from
\* the same declarations and the same remote records decides, and that dry run
\* returns as well.
C28_DryRunDecidesWhatIsSent ==
    [][(pc' = "done" /\ ~dry_run) =>
         \E d \in {SyncOf([World EXCEPT !.dry_run = TRUE])} :
            /\ d.err = ""
            /\ d.calls # << >>
            /\ \A i \in 1..Len(d.calls) : d.calls[i].method \notin Mutations
            /\ Decisions(d.emitted) = Decisions(emitted')
            /\ Len(MutatingOf(calls')) = Len(emitted')
            /\ \A n \in 1..Len(emitted') :
                 /\ emitted'[n].call \in 1..Len(calls')
                 /\ calls'[emitted'[n].call].method = MethodOf(emitted'[n])
            /\ \A n1, n2 \in 1..Len(emitted') :
                 n1 < n2 => emitted'[n1].call < emitted'[n2].call]_vars

C28_Witness ==
    /\ pc = "done"
    /\ ~dry_run
    /\ \E n \in 1..(Len(emitted) - 1) :
         /\ emitted[n].op = "delete" /\ emitted[n + 1].op = "create"
         /\ emitted[n].src > 0 /\ emitted[n + 1].src = emitted[n].src
    /\ \E n \in 1..Len(emitted) : emitted[n].op = "update"
    /\ \E n \in 1..Len(emitted) : emitted[n].decl > 0

\* the call is given a handle that is no Contact, or a keyword that is neither
\* threshold nor recurrence
InvalidAdd ==
    \/ \E i \in 1..Len(fnArgs.args) : fnArgs.args[i].type # "Contact"
    \/ \E key \in DOMAIN fnArgs.kwargs : key \notin {"threshold", "recurrence"}

\* C29: an add_contacts call with a handle that is no Contact, or with a keyword
\* other than threshold and recurrence, fails and adds none of its handles: the
\* monitor's added contacts are what they were.
C29_InvalidAddAddsNothing ==
    (fnArgs.fn = "add_contacts" /\ InvalidAdd) =>
        /\ fnResult.raises = "AssertionError"
        /\ fnResult.added = fnArgs.added

\* keyword arguments without one of them
Omit(kwargs, f) == [g \in DOMAIN kwargs \ {f} |-> kwargs[g]]
\* the parameters of the create request of an entity
ParamsCreate(kind, e) ==
    IF kind = "contact" THEN ContactParamsCreate(e) ELSE MonitorParamsCreate(e, FnContacts)
\* an optional field is given as 0 or as the empty string
GivenEmpty(f) ==
    /\ fnArgs.fn = "__init__"
    /\ fnResult.raises = ""
    /\ f \in DOMAIN fnArgs.kwargs
    /\ f \notin REQUIRED_FIELDS(fnArgs.kind)
    /\ fnArgs.kwargs[f] \in {RI(0), RS(EmptyStr)}

\* C30: an entity constructed with an optional field given as 0 or "" does not
\* store the field, reads it as the default of its type, equals the entity
\* constructed without the field and has the same create parameters.
C30_EmptyMeansDefault ==
    \A f \in Range(MonitorFields) \cup Range(ContactFields) :
      GivenEmpty(f) =>
        \E omitted \in {Construct(fnArgs.kind, Omit(fnArgs.kwargs, f))} :
          /\ f \notin DOMAIN fnResult.entity.sv \cup DOMAIN fnResult.entity.iv
          /\ GetItem(fnResult.entity, f) = (IF TYPES(f) = "int" THEN RI(0) ELSE RS(EmptyStr))
          /\ SyncableEq(fnArgs.kind, fnResult.entity, omitted)
          /\ fnArgs.kind = "monitor" => MonitorEq(fnResult.entity, omitted, FnContacts)
          /\ ParamsCreate(fnArgs.kind, fnResult.entity) = ParamsCreate(fnArgs.kind, omitted)

C30_Witness ==
    /\ GivenEmpty("port")
    /\ "friendlyname" \in DOMAIN fnResult.entity.sv
    /\ fnArgs.kwargs["port"] = RI(0)

====
